---- MODULE Spec2Model ----
(***************************************************************************)
(* Model of the netchat checkpoint tools:                                  *)
(*   convert_checkpoint.py   convert_parameter_name, convert_checkpoint    *)
(*   verify_forward_pass.py  create_test_input, save_tensors               *)
(* Parameter names are sequences of one-character strings, so that         *)
(* str.startswith, str.replace and re.sub act on characters as in Python.  *)
(***************************************************************************)
EXTENDS Integers, Sequences, FiniteSets, TLC

VARIABLES
    \* convert_parameter_name applied to a key, then to its own result
    key, name, name2, rpc,
    \* the rewrite rules applied one at a time, in any order
    cur, applied,
    \* one run of convert_checkpoint: the files, the locals, the exit status
    pc, input_file, stored, checkpoint, state_dict, pos,
    converted_state_dict, conversions,
    output_state, output_content, output_before, exit_code, steps,
    \* create_test_input and the global random generator
    rng, input_ids, call, ref, prior_differs,
    \* save_tensors and the output directory
    dir_state, artifacts, saved, status, overwrote

rewriteVars == <<key, name, name2, rpc>>
ruleVars == <<cur, applied>>
ckptVars == <<pc, input_file, stored, checkpoint, state_dict, pos,
              converted_state_dict, conversions,
              output_state, output_content, output_before, exit_code, steps>>
fixtureVars == <<rng, input_ids, call, ref, prior_differs>>
persistVars == <<dir_state, artifacts, saved, status, overwrote>>
vars == <<rewriteVars, ruleVars, ckptVars, fixtureVars, persistVars>>

----------------------------------------------------------------------------
(* Bounds *)

\* number of fragments concatenated into a key of the rewrite corpus
MaxFrags == 3
\* number of fragments concatenated into a key of the rule-order corpus
MaxRuleFrags == 2
\* number of entries of a state dict
MaxKeys == 2
\* create_test_input arguments: seq_len in 1..MaxSeqLen,
\* vocab_size in 1..MaxVocab, seed in 0..MaxSeed
MaxSeqLen == 2
MaxVocab == 2
MaxSeed == 1

----------------------------------------------------------------------------
(* String literals of convert_parameter_name *)

TOKEN_EMBEDDING == <<"t", "o", "k", "e", "n", "_", "e", "m", "b", "e", "d", "d", "i", "n", "g", ".">>
WTE == <<"w", "t", "e", ".">>
TOKEN_EMBEDDING_CS == <<"_", "t", "o", "k", "e", "n", "E", "m", "b", "e", "d", "d", "i", "n", "g", ".">>
LM_HEAD == <<"l", "m", "_", "h", "e", "a", "d", ".">>
LM_HEAD_CS == <<"_", "l", "m", "H", "e", "a", "d", ".">>
BLOCKS == <<"b", "l", "o", "c", "k", "s", ".">>
BLOCK_CS == <<"b", "l", "o", "c", "k", "_">>
ATTN == <<".", "a", "t", "t", "n", ".">>
ATTN_CS == <<".", "_", "a", "t", "t", "n", ".">>
Q_PROJ == <<".", "q", "_", "p", "r", "o", "j", ".">>
Q_PROJ_CS == <<".", "_", "q", "P", "r", "o", "j", ".">>
K_PROJ == <<".", "k", "_", "p", "r", "o", "j", ".">>
K_PROJ_CS == <<".", "_", "k", "P", "r", "o", "j", ".">>
V_PROJ == <<".", "v", "_", "p", "r", "o", "j", ".">>
V_PROJ_CS == <<".", "_", "v", "P", "r", "o", "j", ".">>
OUT_PROJ == <<".", "o", "u", "t", "_", "p", "r", "o", "j", ".">>
OUT_PROJ_CS == <<".", "_", "o", "u", "t", "P", "r", "o", "j", ".">>
MLP == <<".", "m", "l", "p", ".">>
MLP_CS == <<".", "_", "m", "l", "p", ".">>
FC1 == <<".", "f", "c", "1", ".">>
FC1_CS == <<".", "_", "f", "c", "1", ".">>
FC2 == <<".", "f", "c", "2", ".">>
FC2_CS == <<".", "_", "f", "c", "2", ".">>
NORM1 == <<".", "n", "o", "r", "m", "1", ".">>
NORM1_CS == <<".", "_", "n", "o", "r", "m", "1", ".">>
NORM2 == <<".", "n", "o", "r", "m", "2", ".">>
NORM2_CS == <<".", "_", "n", "o", "r", "m", "2", ".">>
FINAL_NORM == <<".", "f", "i", "n", "a", "l", "_", "n", "o", "r", "m", ".">>
FINAL_NORM_CS == <<".", "_", "f", "i", "n", "a", "l", "N", "o", "r", "m", ".">>

\* the characters \d matches (ASCII digits)
Digits == {"0", "1", "2", "3", "4", "5", "6", "7", "8", "9"}

----------------------------------------------------------------------------
(* Python string operations *)

\* s[n:] with n counted from 0
Drop(s, n) == SubSeq(s, n + 1, Len(s))

\* s.startswith(p)
StartsWith(s, p) == Len(s) >= Len(p) /\ SubSeq(s, 1, Len(p)) = p

\* p in s
Contains(s, p) == \E i \in 1..(Len(s) - Len(p) + 1) : SubSeq(s, i, i + Len(p) - 1) = p

\* s.replace(old, new): every non-overlapping occurrence, leftmost first;
\* s itself when old does not occur
RECURSIVE Replace(_, _, _)
Replace(s, old, new) ==
    IF ~Contains(s, old) THEN s
    ELSE IF StartsWith(s, old) THEN new \o Replace(Drop(s, Len(old)), old, new)
    ELSE <<Head(s)>> \o Replace(Tail(s), old, new)

\* length of the longest run of digits at the start of s (the greedy \d+)
RECURSIVE DigitRun(_)
DigitRun(s) ==
    IF s # <<>> /\ Head(s) \in Digits THEN 1 + DigitRun(Tail(s)) ELSE 0

\* re.sub(r'blocks\.(\d+)', r'block_\1', s)
RECURSIVE ReSubBlocks(_)
ReSubBlocks(s) ==
    IF s = <<>> THEN s
    ELSE IF StartsWith(s, BLOCKS) /\ DigitRun(Drop(s, Len(BLOCKS))) > 0
         THEN LET d == DigitRun(Drop(s, Len(BLOCKS)))
              IN  BLOCK_CS \o SubSeq(s, Len(BLOCKS) + 1, Len(BLOCKS) + d)
                           \o ReSubBlocks(Drop(s, Len(BLOCKS) + d))
         ELSE <<Head(s)>> \o ReSubBlocks(Tail(s))

----------------------------------------------------------------------------
(* convert_parameter_name, statement by statement *)

MapTokenEmbedding(n) ==
    IF StartsWith(n, TOKEN_EMBEDDING) \/ StartsWith(n, WTE)
    THEN Replace(Replace(n, TOKEN_EMBEDDING, TOKEN_EMBEDDING_CS), WTE, TOKEN_EMBEDDING_CS)
    ELSE n

MapLmHead(n) ==
    IF StartsWith(n, LM_HEAD) THEN Replace(n, LM_HEAD, LM_HEAD_CS) ELSE n

MapBlocks(n) ==
    IF Contains(n, BLOCKS) THEN ReSubBlocks(n) ELSE n

\* the eleven infix replacements in source order
Infix ==
    << <<ATTN, ATTN_CS>>, <<Q_PROJ, Q_PROJ_CS>>, <<K_PROJ, K_PROJ_CS>>,
       <<V_PROJ, V_PROJ_CS>>, <<OUT_PROJ, OUT_PROJ_CS>>,
       <<MLP, MLP_CS>>, <<FC1, FC1_CS>>, <<FC2, FC2_CS>>,
       <<NORM1, NORM1_CS>>, <<NORM2, NORM2_CS>>, <<FINAL_NORM, FINAL_NORM_CS>> >>

\* a replacement string that lost its closing `.`
MapInfix_NoClosingDot(n, i) ==
    Replace(n, Infix[i][1], SubSeq(Infix[i][2], 1, Len(Infix[i][2]) - 1))

MapInfix(n, i) == Replace(n, Infix[i][1], Infix[i][2])

RECURSIVE MapInfixes(_, _)
MapInfixes(n, i) ==
    IF i > Len(Infix) THEN n ELSE MapInfixes(MapInfix(n, i), i + 1)

convert_parameter_name(pytorch_name) ==
    MapInfixes(MapBlocks(MapLmHead(MapTokenEmbedding(pytorch_name))), 1)

----------------------------------------------------------------------------
(* The rules as separate steps: 1 token embedding, 2 lm_head, 3 blocks,    *)
(* 4..14 the infix replacements                                            *)

Rules == 1..(3 + Len(Infix))

ApplyRule(r, n) ==
    CASE r = 1 -> MapTokenEmbedding(n)
      [] r = 2 -> MapLmHead(n)
      [] r = 3 -> MapBlocks(n)
      [] OTHER -> MapInfix(n, r - 3)

----------------------------------------------------------------------------
(* Key corpora *)

Frags ==
    { WTE, TOKEN_EMBEDDING, LM_HEAD, BLOCKS, BLOCK_CS, ATTN,
      <<"b", "l", "o", "c", "k", "s">>, <<"a", "t", "t", "n", ".">>,
      <<"f", "c", "1", ".">>, <<".">>, <<"x">>, <<"1">>, <<"2">> }

RECURSIVE Concats(_, _)
Concats(F, n) ==
    IF n = 0 THEN {<<>>}
    ELSE LET S == Concats(F, n - 1) IN S \cup {k \o f : k \in S, f \in F}

Keys == Concats(Frags, MaxFrags)

RuleFrags ==
    { WTE, LM_HEAD,
      <<"b", "l", "o", "c", "k", "s", ".", "1", ".", "f", "c", "1", ".",
        "a", "t", "t", "n", ".">> }

RuleKeys == Concats(RuleFrags, MaxRuleFrags)

----------------------------------------------------------------------------
(* Variables a specification does not use keep these values *)

RewriteIdle == key = <<>> /\ name = <<>> /\ name2 = <<>> /\ rpc = "idle"

RulesIdle == cur = <<>> /\ applied = {}

\* an object that is no mapping, and the value of a local not yet assigned
NotMapping == [mapping |-> FALSE, items |-> <<>>]

NoCheckpoint ==
    [isdict |-> FALSE, has_model |-> FALSE, model |-> NotMapping,
     has_state_dict |-> FALSE, state_dict |-> NotMapping, rest |-> <<>>]

CkptIdle ==
    /\ pc = "idle"
    /\ input_file = "missing"
    /\ stored = NoCheckpoint
    /\ checkpoint = NoCheckpoint
    /\ state_dict = NotMapping
    /\ pos = 0
    /\ converted_state_dict = <<>>
    /\ conversions = <<>>
    /\ output_state = "absent"
    /\ output_content = <<>>
    /\ output_before = "absent"
    /\ exit_code = -1
    /\ steps = {}

NoCall == [seq_len |-> 0, vocab_size |-> 0, seed |-> 0, before |-> 0, result |-> <<>>]

FixtureIdle ==
    /\ rng = 0
    /\ input_ids = <<>>
    /\ call = NoCall
    /\ ref = NoCall
    /\ prior_differs = FALSE

NoFile == [state |-> "none", data |-> <<>>]

NoSave == [input_ids |-> <<>>, logits |-> <<>>]

PersistIdle ==
    /\ dir_state = "absent"
    /\ artifacts = [test_input |-> NoFile, expected_output |-> NoFile]
    /\ saved = NoSave
    /\ status = "idle"
    /\ overwrote = FALSE

----------------------------------------------------------------------------
(* Specification SpecRewrite: convert a key, then convert the result       *)

RewriteInit ==
    /\ key \in Keys
    /\ name = <<>>
    /\ name2 = <<>>
    /\ rpc = "start"
    /\ RulesIdle /\ CkptIdle /\ FixtureIdle /\ PersistIdle

Convert ==
    /\ rpc = "start"
    /\ name' = convert_parameter_name(key)
    /\ rpc' = "once"
    /\ UNCHANGED <<key, name2, ruleVars, ckptVars, fixtureVars, persistVars>>

Reconvert ==
    /\ rpc = "once"
    /\ name2' = convert_parameter_name(name)
    /\ rpc' = "twice"
    /\ UNCHANGED <<key, name, ruleVars, ckptVars, fixtureVars, persistVars>>

RewriteNext == Convert \/ Reconvert

SpecRewrite == RewriteInit /\ [][RewriteNext]_vars

----------------------------------------------------------------------------
(* Specification SpecRules: each rule once, in any order                   *)

RulesInit ==
    /\ key \in RuleKeys
    /\ cur = key
    /\ applied = {}
    /\ name = <<>>
    /\ name2 = <<>>
    /\ rpc = "rules"
    /\ CkptIdle /\ FixtureIdle /\ PersistIdle

Apply ==
    \E r \in Rules \ applied :
        /\ cur' = ApplyRule(r, cur)
        /\ applied' = applied \cup {r}
        /\ UNCHANGED <<rewriteVars, ckptVars, fixtureVars, persistVars>>

RulesNext == Apply

SpecRules == RulesInit /\ [][RulesNext]_vars

----------------------------------------------------------------------------
(* Checkpoints: a state dict is a Python dict, kept as the sequence of its *)
(* (key, value) pairs in insertion order                                   *)

\* tensors are opaque: only their identity matters
Tensors == {"t1", "t2"}

OPTIMIZER == <<"o", "p", "t", "i", "m", "i", "z", "e", "r">>

CkptKeys ==
    { WTE \o <<"w">>, TOKEN_EMBEDDING \o <<"w">>, LM_HEAD \o <<"w">>,
      BLOCKS \o <<"1", ".", "w">>, BLOCK_CS \o <<"1", ".", "w">>, OPTIMIZER }

KeysOf(d) == {d[i][1] : i \in DOMAIN d}

\* d[k]
DictGet(d, k) == d[CHOOSE i \in DOMAIN d : d[i][1] = k][2]

\* d[k] = v: an existing key keeps its place and takes the new value
DictSet(d, k, v) ==
    IF k \in KeysOf(d)
    THEN [i \in DOMAIN d |-> IF d[i][1] = k THEN <<k, v>> ELSE d[i]]
    ELSE Append(d, <<k, v>>)

RECURSIVE DictsUpTo(_)
DictsUpTo(n) ==
    IF n = 0 THEN {<<>>}
    ELSE LET S == DictsUpTo(n - 1)
         IN  S \cup {Append(d, <<k, t>>) :
                        d \in {x \in S : Len(x) = n - 1},
                        k \in CkptKeys, t \in Tensors}

\* the state dicts considered: up to MaxKeys entries under distinct keys
StateDicts == {d \in DictsUpTo(MaxKeys) : Cardinality(KeysOf(d)) = Len(d)}

Mapping(d) == [mapping |-> TRUE, items |-> d]

\* what the `model` or `state_dict` entry of a wrapper may hold
Entries == {NotMapping} \cup {Mapping(d) : d \in StateDicts}

\* a second entry, told apart from the first by its tensor
OtherEntry == Mapping(<<<<LM_HEAD \o <<"w">>, "t2">>>>)

\* the further entries of a wrapper
Rests == {<<>>, <<<<OPTIMIZER, "t1">>>>}

\* what torch.load may return.  `rest` holds the entries of a mapping other
\* than `model` and `state_dict`.
Checkpoints ==
    {NoCheckpoint}
    \cup {[isdict |-> TRUE, has_model |-> FALSE, model |-> NotMapping,
           has_state_dict |-> FALSE, state_dict |-> NotMapping, rest |-> d] :
            d \in StateDicts}
    \cup {[isdict |-> TRUE, has_model |-> TRUE, model |-> m,
           has_state_dict |-> h, state_dict |-> IF h THEN OtherEntry ELSE NotMapping,
           rest |-> r] : m \in Entries, h \in BOOLEAN, r \in Rests}
    \cup {[isdict |-> TRUE, has_model |-> FALSE, model |-> NotMapping,
           has_state_dict |-> TRUE, state_dict |-> e, rest |-> r] :
            e \in Entries, r \in Rests}

----------------------------------------------------------------------------
(* convert_checkpoint *)

\* an except clause that prints and returns
OnException_NoExit(e) ==
    CASE e = "FileNotFoundError" -> 1
      [] OTHER -> 0

\* the except clauses: both print and call sys.exit(1)
OnException(e) ==
    CASE e = "FileNotFoundError" -> 1
      [] OTHER -> 1

\* an exception raised inside the try block ends the run in its handler
Raise(e) ==
    /\ pc' = "done"
    /\ exit_code' = OnException(e)

\* the two wrapper keys tested in the other order
ExtractStateDict_StateDictFirst(c) ==
    IF c.has_state_dict THEN c.state_dict
    ELSE IF c.has_model THEN c.model
    ELSE Mapping(c.rest)

\* the if/elif/else over the loaded mapping
ExtractStateDict(c) ==
    IF c.has_model THEN c.model
    ELSE IF c.has_state_dict THEN c.state_dict
    ELSE Mapping(c.rest)

CkptInit ==
    /\ pc = "load"
    /\ input_file \in {"missing", "corrupt", "ok"}
    /\ stored \in (IF input_file = "ok" THEN Checkpoints ELSE {NoCheckpoint})
    /\ checkpoint = NoCheckpoint
    /\ state_dict = NotMapping
    /\ pos = 0
    /\ converted_state_dict = <<>>
    /\ conversions = <<>>
    /\ output_before \in {"absent", "old"}
    /\ output_state = output_before
    /\ output_content = <<>>
    /\ exit_code = -1
    /\ steps = {}
    /\ RewriteIdle /\ RulesIdle /\ FixtureIdle /\ PersistIdle

ckptOther == <<rewriteVars, ruleVars, fixtureVars, persistVars>>

\* torch.load returns the stored object
LoadOk ==
    /\ pc = "load"
    /\ input_file = "ok"
    /\ checkpoint' = stored
    /\ steps' = steps \cup {"load"}
    /\ pc' = "extract"
    /\ UNCHANGED <<input_file, stored, state_dict, pos, converted_state_dict,
                   conversions, output_state, output_content, output_before,
                   exit_code, ckptOther>>

\* torch.load raises FileNotFoundError
LoadNotFound ==
    /\ pc = "load"
    /\ input_file = "missing"
    /\ Raise("FileNotFoundError")
    /\ UNCHANGED <<input_file, stored, checkpoint, state_dict, pos,
                   converted_state_dict, conversions, output_state,
                   output_content, output_before, steps, ckptOther>>

\* torch.load raises on a file it cannot read
LoadError ==
    /\ pc = "load"
    /\ input_file = "corrupt"
    /\ Raise("Exception")
    /\ UNCHANGED <<input_file, stored, checkpoint, state_dict, pos,
                   converted_state_dict, conversions, output_state,
                   output_content, output_before, steps, ckptOther>>

\* isinstance(checkpoint, dict): pick the state dict
Extract ==
    /\ pc = "extract"
    /\ checkpoint.isdict
    /\ state_dict' = ExtractStateDict(checkpoint)
    /\ pos' = 1
    /\ steps' = steps \cup {"extract"}
    /\ pc' = "rewrite"
    /\ UNCHANGED <<input_file, stored, checkpoint, converted_state_dict,
                   conversions, output_state, output_content, output_before,
                   exit_code, ckptOther>>

\* not a dict: sys.exit(1); SystemExit passes `except Exception`
ExtractUnexpected ==
    /\ pc = "extract"
    /\ ~checkpoint.isdict
    /\ pc' = "done"
    /\ exit_code' = 1
    /\ UNCHANGED <<input_file, stored, checkpoint, state_dict, pos,
                   converted_state_dict, conversions, output_state,
                   output_content, output_before, steps, ckptOther>>

\* state_dict.items() on an object that has none raises AttributeError
ItemsRaise ==
    /\ pc = "rewrite"
    /\ ~state_dict.mapping
    /\ Raise("Exception")
    /\ UNCHANGED <<input_file, stored, checkpoint, state_dict, pos,
                   converted_state_dict, conversions, output_state,
                   output_content, output_before, steps, ckptOther>>

\* converted_state_dict after the loop body ran for item (old_name, tensor)
StoreConverted(d, old_name, tensor) ==
    DictSet(d, convert_parameter_name(old_name), tensor)

\* conversions after the loop body ran for old_name
RecordConversion(c, old_name) ==
    IF old_name # convert_parameter_name(old_name)
    THEN Append(c, <<old_name, convert_parameter_name(old_name)>>)
    ELSE c

\* one iteration of the for loop
ConvertItem ==
    /\ pc = "rewrite"
    /\ state_dict.mapping
    /\ pos <= Len(state_dict.items)
    /\ converted_state_dict' =
          StoreConverted(converted_state_dict, state_dict.items[pos][1],
                         state_dict.items[pos][2])
    /\ conversions' = RecordConversion(conversions, state_dict.items[pos][1])
    /\ pos' = pos + 1
    /\ UNCHANGED <<pc, input_file, stored, checkpoint, state_dict, output_state,
                   output_content, output_before, exit_code, steps, ckptOther>>

\* the loop is over: the summary is printed
Summary ==
    /\ pc = "rewrite"
    /\ state_dict.mapping
    /\ pos > Len(state_dict.items)
    /\ steps' = steps \cup {"rewrite"}
    /\ pc' = "save"
    /\ UNCHANGED <<input_file, stored, checkpoint, state_dict, pos,
                   converted_state_dict, conversions, output_state,
                   output_content, output_before, exit_code, ckptOther>>

\* torch.save opens output_path for writing: the file exists and is empty
SaveOpen ==
    /\ pc = "save"
    /\ output_state' = "partial"
    /\ steps' = steps \cup {"save_called"}
    /\ pc' = "writing"
    /\ UNCHANGED <<input_file, stored, checkpoint, state_dict, pos,
                   converted_state_dict, conversions, output_content,
                   output_before, exit_code, ckptOther>>

\* torch.save cannot open output_path (no such directory, no permission)
SaveOpenRaise ==
    /\ pc = "save"
    /\ steps' = steps \cup {"save_called"}
    /\ \E e \in {"FileNotFoundError", "Exception"} : Raise(e)
    /\ UNCHANGED <<input_file, stored, checkpoint, state_dict, pos,
                   converted_state_dict, conversions, output_state,
                   output_content, output_before, ckptOther>>

\* torch.save writes the whole collection and returns
SaveWrite ==
    /\ pc = "writing"
    /\ output_state' = "written"
    /\ output_content' = converted_state_dict
    /\ steps' = steps \cup {"save"}
    /\ pc' = "done"
    /\ exit_code' = 0
    /\ UNCHANGED <<input_file, stored, checkpoint, state_dict, pos,
                   converted_state_dict, conversions, output_before, ckptOther>>

\* torch.save raises while writing (disk full, a value it cannot pickle)
SaveWriteRaise ==
    /\ pc = "writing"
    /\ Raise("Exception")
    /\ UNCHANGED <<input_file, stored, checkpoint, state_dict, pos,
                   converted_state_dict, conversions, output_state,
                   output_content, output_before, steps, ckptOther>>

Next ==
    \/ LoadOk \/ LoadNotFound \/ LoadError
    \/ Extract \/ ExtractUnexpected
    \/ ItemsRaise \/ ConvertItem \/ Summary
    \/ SaveOpen \/ SaveOpenRaise \/ SaveWrite \/ SaveWriteRaise

Spec == CkptInit /\ [][Next]_vars

----------------------------------------------------------------------------
(* The global random generator of torch, as far as create_test_input uses  *)
(* it: a state that manual_seed sets from the seed alone and that every    *)
(* draw advances.  The generator here is a full-period congruential one    *)
(* over 8 states.                                                          *)

RngStates == 0..7

\* no reseeding: the generator goes on from where it is
manual_seed_skipped(seed) == rng

\* torch.manual_seed(seed): the new generator state
manual_seed(seed) == seed % 8

\* the generator state after one draw
RngStep(s) == (5 * s + 3) % 8

\* torch.randint(0, high, (1, n)) from state s: <<the row drawn, the state left>>
RECURSIVE RandInt(_, _, _)
RandInt(s, high, n) ==
    IF n = 0 THEN <<<<>>, s>>
    ELSE LET r == RandInt(RngStep(s), high, n - 1)
         IN  <<(<<s % high>> \o r[1]), r[2]>>

\* create_test_input: <<input_ids, the generator state it leaves>>;
\* input_ids has shape (1, seq_len): one row of seq_len token ids
create_test_input(seq_len, vocab_size, seed) ==
    LET d == RandInt(manual_seed(seed), vocab_size, seq_len)
    IN  <<(<<d[1]>>), d[2]>>

FixtureInit ==
    /\ rng \in RngStates
    /\ input_ids = <<>>
    /\ call = NoCall
    /\ ref = NoCall
    /\ prior_differs = FALSE
    /\ RewriteIdle /\ RulesIdle /\ CkptIdle /\ PersistIdle

fixtureOther == <<rewriteVars, ruleVars, ckptVars, persistVars>>

\* a call of create_test_input.  `call` records the call; `ref` is a call
\* kept for comparison (an earlier one, or this one), with the generator
\* state it started from; `prior_differs` tells whether the call kept is an
\* earlier one that started from another generator state than this one.
CreateTestInput ==
    \E seq_len \in 1..MaxSeqLen, vocab_size \in 1..MaxVocab, seed \in 0..MaxSeed :
        LET out == create_test_input(seq_len, vocab_size, seed)
        IN  /\ input_ids' = out[1]
            /\ rng' = out[2]
            /\ call' = [seq_len |-> seq_len, vocab_size |-> vocab_size,
                        seed |-> seed, before |-> 0, result |-> out[1]]
            /\ ref' \in {ref, [call' EXCEPT !.before = rng]}
            /\ prior_differs' = (ref' = ref /\ ref.seq_len > 0 /\ ref.before # rng)
            /\ UNCHANGED fixtureOther

\* any other draw from the global generator (torch.randn in
\* verify_forward_pass)
Randn ==
    /\ rng' = RngStep(rng)
    /\ UNCHANGED <<input_ids, call, ref, prior_differs, fixtureOther>>

FixtureNext == CreateTestInput \/ Randn

SpecFixture == FixtureInit /\ [][FixtureNext]_vars

----------------------------------------------------------------------------
(* save_tensors and the output directory.  output_dir is absent, a         *)
(* directory, or a regular file; each artifact is absent, half written or  *)
(* written with a tensor.                                                  *)

\* the tensors handed to save_tensors
InputTensors == {create_test_input(2, 3, s)[1] : s \in 0..2}

LogitsTensors == {<<<<<<x>>>>>> : x \in 0..2}

\* os.makedirs(output_dir, exist_ok=True) succeeds unless the path is a file
MakedirsOk(d) == d # "file"

\* a write that leaves a file that exists as it is
WriteFile_KeepExisting(old, obj) ==
    IF old.state = "none" THEN [state |-> "full", data |-> obj] ELSE old

\* torch.save(obj, path) on a file that held `old`: the file is opened for
\* writing, so what it held is gone
WriteFile(old, obj) == [state |-> "full", data |-> obj]

\* torch.save interrupted: the file is left half written
PartialFile == [state |-> "partial", data |-> <<>>]

\* what a directory that exists already may hold from an earlier run
StaleArtifacts ==
    [test_input : {NoFile, PartialFile} \cup {WriteFile(NoFile, i) : i \in InputTensors},
     expected_output : {NoFile, PartialFile} \cup {WriteFile(NoFile, l) : l \in LogitsTensors}]

PersistInit ==
    /\ dir_state \in {"absent", "dir", "file"}
    /\ artifacts \in (IF dir_state = "dir" THEN StaleArtifacts
                      ELSE {[test_input |-> NoFile, expected_output |-> NoFile]})
    /\ saved = NoSave
    /\ status = "none"
    /\ overwrote = FALSE
    /\ RewriteIdle /\ RulesIdle /\ CkptIdle /\ FixtureIdle

persistOther == <<rewriteVars, ruleVars, ckptVars, fixtureVars>>

\* save_tensors returns normally
SaveTensors ==
    \E i \in InputTensors, l \in LogitsTensors :
        /\ MakedirsOk(dir_state)
        /\ dir_state' = "dir"
        /\ artifacts' = [test_input |-> WriteFile(artifacts.test_input, i),
                         expected_output |-> WriteFile(artifacts.expected_output, l)]
        /\ saved' = [input_ids |-> i, logits |-> l]
        /\ status' = "ok"
        /\ overwrote' = /\ artifacts.test_input.state = "full"
                        /\ artifacts.expected_output.state = "full"
                        /\ artifacts.test_input.data # i
                        /\ artifacts.expected_output.data # l
        /\ UNCHANGED persistOther

\* os.makedirs raises FileExistsError: output_dir is a regular file
SaveTensorsMakedirsRaise ==
    \E i \in InputTensors, l \in LogitsTensors :
        /\ ~MakedirsOk(dir_state)
        /\ saved' = [input_ids |-> i, logits |-> l]
        /\ status' = "error"
        /\ overwrote' = FALSE
        /\ UNCHANGED <<dir_state, artifacts, persistOther>>

\* the first torch.save raises while writing test_input
SaveTensorsFirstRaise ==
    \E i \in InputTensors, l \in LogitsTensors :
        /\ MakedirsOk(dir_state)
        /\ dir_state' = "dir"
        /\ artifacts' = [artifacts EXCEPT !.test_input = PartialFile]
        /\ saved' = [input_ids |-> i, logits |-> l]
        /\ status' = "error"
        /\ overwrote' = FALSE
        /\ UNCHANGED persistOther

\* the second torch.save raises while writing expected_output
SaveTensorsSecondRaise ==
    \E i \in InputTensors, l \in LogitsTensors :
        /\ MakedirsOk(dir_state)
        /\ dir_state' = "dir"
        /\ artifacts' = [test_input |-> WriteFile(artifacts.test_input, i),
                         expected_output |-> PartialFile]
        /\ saved' = [input_ids |-> i, logits |-> l]
        /\ status' = "error"
        /\ overwrote' = FALSE
        /\ UNCHANGED persistOther

PersistNext ==
    \/ SaveTensors \/ SaveTensorsMakedirsRaise
    \/ SaveTensorsFirstRaise \/ SaveTensorsSecondRaise

SpecPersist == PersistInit /\ [][PersistNext]_vars

----------------------------------------------------------------------------
(* Properties of convert_parameter_name *)

\* C1 (as stated): converting a converted name changes nothing.
C1_Idempotent == rpc = "twice" => name2 = name

\* number of places where s holds `block_` followed by a digit
CountBlockCs(s) ==
    Cardinality({i \in 1..Len(s) :
        /\ StartsWith(Drop(s, i - 1), BLOCK_CS)
        /\ DigitRun(Drop(s, i - 1 + Len(BLOCK_CS))) > 0})

\* number of places where s holds `blocks.` followed by a digit, with
\* `blocks` at the start of s or directly after a `.`
CountAnchoredBlocks(s) ==
    Cardinality({i \in 1..Len(s) :
        /\ StartsWith(Drop(s, i - 1), BLOCKS)
        /\ DigitRun(Drop(s, i - 1 + Len(BLOCKS))) > 0
        /\ (i = 1 \/ s[i - 1] = ".")})

\* C4 (as stated): every `block_<N>` of the result that the key did not
\* hold comes from a `blocks.<N>` whose `blocks` begins a name component.
C4_BlocksBoundary ==
    rpc \in {"once", "twice"} =>
        CountBlockCs(name) <= CountBlockCs(key) + CountAnchoredBlocks(key)

\* C3: once every rule has been applied once, in whatever order, the result
\* is the one convert_parameter_name computes in its own order.
C3_Confluent == applied = Rules => cur = convert_parameter_name(key)

\* every rule applied to `wte.blocks.1.fc1.attn.`: four of them rewrote it
C3_Witness ==
    /\ applied = Rules
    /\ key = WTE \o BLOCKS \o <<"1">> \o FC1 \o <<"a", "t", "t", "n", ".">>
    /\ cur = TOKEN_EMBEDDING_CS \o BLOCK_CS \o <<"1">> \o FC1_CS
                \o <<"_", "a", "t", "t", "n", ".">>

----------------------------------------------------------------------------
(* Properties of convert_checkpoint *)

LoopDone == "rewrite" \in steps

\* C2 (as stated): the converted collection has as many keys as the state
\* dict it was built from.
C2_CountConserved ==
    LoopDone => Len(converted_state_dict) = Len(state_dict.items)

\* C10 (as stated): each input key's tensor is found under the converted
\* key, and every converted tensor is that of some input key.
C10_OnlyRekeys ==
    LoopDone =>
        /\ \A i \in DOMAIN state_dict.items :
              LET k == convert_parameter_name(state_dict.items[i][1])
              IN  /\ k \in KeysOf(converted_state_dict)
                  /\ DictGet(converted_state_dict, k) = state_dict.items[i][2]
        /\ \A j \in DOMAIN converted_state_dict :
              \E i \in DOMAIN state_dict.items :
                  converted_state_dict[j][2] = state_dict.items[i][2]

\* C5: the state dict is the `model` entry when there is one, else the
\* `state_dict` entry when there is one, else the whole mapping.
C5_ExtractOrder ==
    "extract" \in steps =>
        /\ checkpoint.has_model => state_dict = checkpoint.model
        /\ ~checkpoint.has_model /\ checkpoint.has_state_dict
              => state_dict = checkpoint.state_dict
        /\ ~checkpoint.has_model /\ ~checkpoint.has_state_dict
              => state_dict.mapping /\ state_dict.items = checkpoint.rest

\* a wrapper with `model`, `state_dict` and `optimizer`: `model` was taken
C5_Witness ==
    /\ "extract" \in steps
    /\ checkpoint.has_model /\ checkpoint.has_state_dict
    /\ OPTIMIZER \in KeysOf(checkpoint.rest)
    /\ checkpoint.model # checkpoint.state_dict
    /\ state_dict = checkpoint.model
    /\ state_dict.items # <<>>

Stages == {"load", "extract", "rewrite", "save"}

\* the outcome a state of a run shows
OutcomeOk ==
    /\ pc # "done" => exit_code = -1
    /\ pc = "done" => exit_code \in {0, 1}
    /\ exit_code = 0 => Stages \subseteq steps
    /\ pc = "done" /\ ~(Stages \subseteq steps) => exit_code = 1
    /\ pc = "done" /\ input_file = "missing" => exit_code = 1
    /\ pc = "done" /\ "load" \in steps /\ ~checkpoint.isdict => exit_code = 1
    /\ pc = "done" /\ ~({"load", "extract"} \subseteq steps)
          => /\ "save_called" \notin steps
             /\ output_state = output_before
             /\ output_content = <<>>

\* C6: a run ends with exit status 0 or 1 and takes no step after that;
\* status 0 needs load, extraction, rewrite and save to have succeeded, any
\* failure gives status 1; a run that failed in load or extraction never
\* called save and left the output path as it was.
C6_TerminalOutcome == []OutcomeOk /\ [][pc # "done"]_vars

\* a run that loaded an object that is no mapping: status 1, output untouched
C6_Witness ==
    /\ pc = "done"
    /\ exit_code = 1
    /\ "load" \in steps /\ "extract" \notin steps
    /\ ~checkpoint.isdict
    /\ output_before = "old" /\ output_state = "old"

\* C9 (as stated): after a failed run the output path is as it was before
\* the run or fully written.
C9_SaveAllOrNothing ==
    pc = "done" /\ exit_code = 1 => output_state \in {output_before, "written"}

----------------------------------------------------------------------------
(* Properties of create_test_input and save_tensors *)

\* C7: the tensor has shape (1, seq_len) with elements in [0, vocab_size),
\* and two calls with the same arguments return the same tensor, whatever
\* the generator state each started from.
C7_Deterministic ==
    call.seq_len > 0 =>
        /\ input_ids = call.result
        /\ Len(input_ids) = 1
        /\ Len(input_ids[1]) = call.seq_len
        /\ \A j \in 1..call.seq_len : input_ids[1][j] \in 0..(call.vocab_size - 1)
        /\ ( /\ ref.seq_len = call.seq_len
             /\ ref.vocab_size = call.vocab_size
             /\ ref.seed = call.seed ) => ref.result = call.result

\* the same arguments twice, from two different generator states
C7_Witness ==
    /\ call.seq_len = 2 /\ call.vocab_size = 2
    /\ ref.seq_len = call.seq_len
    /\ ref.vocab_size = call.vocab_size
    /\ ref.seed = call.seed
    /\ prior_differs
    /\ ref.result = call.result

\* C8: after a call of save_tensors that succeeded, the directory exists
\* and the two artifacts hold exactly that call's tensors.
C8_LastSaveWins ==
    status = "ok" =>
        /\ dir_state = "dir"
        /\ artifacts.test_input = [state |-> "full", data |-> saved.input_ids]
        /\ artifacts.expected_output = [state |-> "full", data |-> saved.logits]

\* a successful call on a directory that held two other tensors
C8_Witness ==
    /\ status = "ok"
    /\ overwrote
    /\ artifacts.test_input.data = saved.input_ids
    /\ artifacts.expected_output.data = saved.logits

====
